---- MODULE Spec2Model ----
(***************************************************************************)
(* A model of utils/journal.py: the pydantic Entry classes and their       *)
(* resource-URL extraction, the Journal's two bounded deques with          *)
(* add_entry and the lookups by id, the records the module hands to       *)
(* logging, create_entry_model, and the resource pipeline                  *)
(* (get_signed_resource_urls, save_resources).                             *)
(*                                                                         *)
(* Python values are tagged records, so that a dict, a list, a str, a bool *)
(* and None can stand in the same position as they can in a payload.       *)
(* A call's outcome is either a returned value or a raised exception       *)
(* class; `except` clauses are modelled by the classes they catch.         *)
(***************************************************************************)
EXTENDS Integers, Sequences, FiniteSets, TLC

VARIABLES
    max_entries,          \* the maxlen both deques were built with
    debug,                \* config.config["debug"], False when it is not set
    entries,              \* Journal.entries, oldest first
    interactions,         \* Journal.interactions, oldest first
    uuids,                \* how many ids uuid1()/uuid4() have handed out
    outcome,              \* what the last call returned or raised
    subject,              \* the Entry object handed to the resource operations
    appendedEntries,      \* history: every item ever appended to entries
    appendedInteractions  \* history: every item ever appended to interactions

vars == <<max_entries, debug, entries, interactions, uuids, outcome, subject,
          appendedEntries, appendedInteractions>>

----------------------------------------------------------------------------
(* Bounds of the model. *)

MaxCapacity == 2
MaxAppends == 2
MaxInsertions == 4
MaxFiles == 2
MaxRaw == 3
MaxSigned == 3

----------------------------------------------------------------------------
(* Python values. *)

None == [k |-> "none"]
Str(t) == [k |-> "str", s |-> t]
(* A str held as the sequence of its parts: a URL as its segments between  *)
(* slashes, a timestamp as its date-time and its zone suffix.              *)
Text(parts) == [k |-> "str", parts |-> parts]
Bool(b) == [k |-> "bool", b |-> b]
Dict(f) == [k |-> "dict", d |-> f]
List(q) == [k |-> "list", l |-> q]

EmptyDict == Dict(<<>>)

IsNone(v) == "k" \in DOMAIN v /\ v.k = "none"
IsStr(v) == v.k = "str"
IsDict(v) == v.k = "dict"
IsList(v) == v.k = "list"
IsBool(v) == v.k = "bool"

(* bool(v), as `if v:` evaluates it. *)
Truthy(v) ==
    CASE v.k = "none" -> FALSE
      [] v.k = "str" -> IF "parts" \in DOMAIN v THEN v.parts # <<"">> ELSE v.s # ""
      [] v.k = "bool" -> v.b
      [] v.k = "dict" -> DOMAIN v.d # {}
      [] v.k = "list" -> v.l # <<>>

(* A call's outcome. *)
Return(v) == [exc |-> "", val |-> v]
Raise(e) == [exc |-> e]
Raised(r) == r.exc # ""

(* dict.get(key, default) on a dict's content. *)
Get(f, key, default) == IF key \in DOMAIN f THEN f[key] ELSE default

Last(q) == q[Len(q)]

----------------------------------------------------------------------------
(* Timestamps.  A timestamp text is a sequence of tokens, its date-time    *)
(* part followed by its zone suffix; an aware datetime is its local hour   *)
(* and its UTC offset.                                                     *)

ReplaceZ(text) == [i \in DOMAIN text |-> IF text[i] = "Z" THEN "+00:00" ELSE text[i]]

LocalTimes == [x \in {"2024-05-01T10:00:00", "2024-05-01T11:00:00"} |->
                 IF x = "2024-05-01T10:00:00" THEN 10 ELSE 11]
Offsets == [x \in {"+00:00", "+01:00"} |-> IF x = "+00:00" THEN 0 ELSE 1]

(* datetime.fromisoformat: the parsed datetime, or ValueError. *)
fromisoformat(text) ==
    IF /\ Len(text) = 2
       /\ text[1] \in DOMAIN LocalTimes
       /\ text[2] \in DOMAIN Offsets
    THEN Return([local |-> LocalTimes[text[1]], utcoffset |-> Offsets[text[2]]])
    ELSE Raise("ValueError")

(* datetime.isoformat of an aware datetime. *)
isoformat(dt) ==
    << CHOOSE x \in DOMAIN LocalTimes : LocalTimes[x] = dt.local,
       CHOOSE x \in DOMAIN Offsets : Offsets[x] = dt.utcoffset >>

(* Entry.convert_to_datetime, the `before` validator of createdOn and      *)
(* modifiedOn: value.replace exists on a str only.                         *)
convert_to_datetime(value) ==
    IF ~IsStr(value) THEN Raise("AttributeError")
    ELSE fromisoformat(ReplaceZ(value.parts))

----------------------------------------------------------------------------
(* The Entry classes. *)

Classes == {"Entry", "VisionEntry", "MagicCamEntry", "AiGeneratedImageEntry",
            "NoteEntry", "ConversationEntry", "SearchEntry", "SearchMemoryEntry"}

entry_type_mapping ==
    [t \in {"ai-generated-image", "magic-camera", "vision", "note",
            "conversation", "beta-rabbit", "search", "search-memory"} |->
        CASE t = "ai-generated-image" -> "AiGeneratedImageEntry"
          [] t = "magic-camera" -> "MagicCamEntry"
          [] t = "vision" -> "VisionEntry"
          [] t = "note" -> "NoteEntry"
          [] t = "conversation" -> "ConversationEntry"
          [] t = "beta-rabbit" -> "ConversationEntry"
          [] t = "search" -> "SearchEntry"
          [] t = "search-memory" -> "SearchMemoryEntry"]

(* The id field: alias `_id`, also populated by its name, else the         *)
(* default factory's fresh uuid.                                           *)
FreshUuid(n) == "uuid-" \o ToString(n)

IdOf(p, n) ==
    IF "_id" \in DOMAIN p THEN p["_id"]
    ELSE IF "id" \in DOMAIN p THEN p["id"]
    ELSE Str(FreshUuid(n))

(* Dict[str, str]: a dict whose values are all str. *)
IsStrDict(v) == IsDict(v) /\ \A key \in DOMAIN v.d : IsStr(v.d[key])

(* The fields pydantic finds missing or of the wrong type.  The two        *)
(* timestamps are handled by their validator.                              *)
FieldErrors(p, n) ==
    {f \in {"userId", "archived", "type", "title", "data", "utterance",
            "createdOn", "modifiedOn"} : f \notin DOMAIN p}
    \cup {f \in {"userId", "type", "title"} \cap DOMAIN p : ~IsStr(p[f])}
    \cup {f \in {"archived"} \cap DOMAIN p : ~IsBool(p[f])}
    \cup {f \in {"data"} \cap DOMAIN p : ~IsDict(p[f])}
    \cup {f \in {"utterance"} \cap DOMAIN p : ~IsStrDict(p[f])}
    \cup (IF IsStr(IdOf(p, n)) THEN {} ELSE {"_id"})

TimestampOutcomes(p) ==
    [f \in {"createdOn", "modifiedOn"} \cap DOMAIN p |-> convert_to_datetime(p[f])]

(* Calling an Entry class on a payload: the validated entry of class cls,   *)
(* or the exception the constructor raises.  Extra fields are ignored.  An *)
(* exception other than ValueError raised by a validator leaves pydantic   *)
(* as it is; everything else is collected into one ValidationError.        *)
Construct(cls, p, n) ==
    LET ts == TimestampOutcomes(p) IN
    IF \E f \in DOMAIN ts : ts[f].exc = "AttributeError"
      THEN Raise("AttributeError")
    ELSE IF FieldErrors(p, n) # {} \/ \E f \in DOMAIN ts : Raised(ts[f])
      THEN Raise("ValidationError")
    ELSE Return([cls |-> cls,
                 id |-> IdOf(p, n).s,
                 userId |-> p["userId"].s,
                 createdOn |-> ts["createdOn"].val,
                 modifiedOn |-> ts["modifiedOn"].val,
                 archived |-> p["archived"].b,
                 type |-> p["type"].s,
                 title |-> p["title"].s,
                 data |-> p["data"].d,
                 utterance |-> p["utterance"].d])

ConstructFailureFirstOnly(p, n) ==
    LET ts == TimestampOutcomes(p) IN
    IF \E f \in DOMAIN ts : ts[f].exc = "AttributeError"
      THEN [exc |-> "AttributeError"]
    ELSE [exc |-> "ValidationError",
          errors |->
            IF FieldErrors(p, n) # {}
              THEN {[loc |-> f, msg |-> IF f \in DOMAIN p \/ f = "_id"
                                          THEN "Input should be a valid value"
                                          ELSE "Field required"] : f \in FieldErrors(p, n)}
              ELSE {[loc |-> f, msg |-> "Value error, Invalid date format"] :
                      f \in {g \in DOMAIN ts : Raised(ts[g])}}]

(* What the exception Construct raises says: the AttributeError of the     *)
(* validator, or the ValidationError with one line for each field that is  *)
(* missing, of the wrong type, or refused by its validator.                *)
ConstructFailure(p, n) ==
    LET ts == TimestampOutcomes(p) IN
    IF \E f \in DOMAIN ts : ts[f].exc = "AttributeError"
      THEN [exc |-> "AttributeError"]
    ELSE [exc |-> "ValidationError",
          errors |->
            {[loc |-> f, msg |-> IF f \in DOMAIN p \/ f = "_id"
                                   THEN "Input should be a valid value"
                                   ELSE "Field required"] : f \in FieldErrors(p, n)}
            \cup {[loc |-> f, msg |-> "Value error, Invalid date format"] :
                     f \in {g \in DOMAIN ts : Raised(ts[g])}}]

(* Does constructing from p draw a fresh uuid? *)
DrawsUuid(p) == "_id" \notin DOMAIN p /\ "id" \notin DOMAIN p

(* create_entry_model: the class the mapping gives for the payload's type, *)
(* the base Entry for every other type, called on the payload.  Nothing    *)
(* is caught.  A type that cannot be a dict key is a TypeError of the      *)
(* lookup.                                                                 *)
create_entry_model(entry_data, n) ==
    LET entry_type == Get(entry_data, "type", None) IN
    IF IsList(entry_type) \/ IsDict(entry_type) THEN Raise("TypeError")
    ELSE LET EntryModel ==
                 IF IsStr(entry_type) /\ entry_type.s \in DOMAIN entry_type_mapping
                   THEN entry_type_mapping[entry_type.s]
                   ELSE "Entry"
         IN  Construct(EntryModel, entry_data, n)

----------------------------------------------------------------------------
(* The Journal. *)

(* deque(maxlen).append: a full deque drops its leftmost item first, and a *)
(* deque of maxlen 0 keeps nothing.                                        *)
DequeAppendDropsNewest(q, x, maxlen) ==
    IF maxlen = 0 THEN q
    ELSE IF Len(q) = maxlen THEN Append(SubSeq(q, 1, Len(q) - 1), x)
    ELSE Append(q, x)

DequeAppend(q, x, maxlen) ==
    IF maxlen = 0 THEN q
    ELSE IF Len(q) = maxlen THEN Append(Tail(q), x)
    ELSE Append(q, x)

(* The records the logging module is handed, in the order of the calls.   *)
Info(message) == [level |-> "info", message |-> message]
Error(message) == [level |-> "error", message |-> message]

(* Journal._log_debug: logging.info(message) when the debug flag is set.   *)
_log_debug(message, flag) == IF flag THEN <<Info(message)>> ELSE <<>>

_create_basic_entry_as_note(user_input, n, created, modified) ==
    ("_id" :> Str(FreshUuid(n)) @@
     "userId" :> Str("local_user") @@
     "createdOn" :> Text(isoformat(created)) @@
     "modifiedOn" :> Text(isoformat(modified)) @@
     "archived" :> Bool(FALSE) @@
     "type" :> Str("note") @@
     "title" :> Str("CLI Input") @@
     "data" :> Dict("conversationData" :> Dict("textContent" :> Str(""))) @@
     "utterance" :> Dict("prompt" :> user_input @@ "intention" :> Str("CONVERSATION")))

(* Journal._create_basic_entry: the payload built from a text; created and *)
(* modified are the two readings of the clock.                             *)
_create_basic_entry(user_input, n, created, modified) ==
    ("_id" :> Str(FreshUuid(n)) @@
     "userId" :> Str("local_user") @@
     "createdOn" :> Text(isoformat(created)) @@
     "modifiedOn" :> Text(isoformat(modified)) @@
     "archived" :> Bool(FALSE) @@
     "type" :> Str("conversation") @@
     "title" :> Str("CLI Input") @@
     "data" :> Dict("conversationData" :> Dict("textContent" :> Str(""))) @@
     "utterance" :> Dict("prompt" :> user_input @@ "intention" :> Str("CONVERSATION")))

_create_entry_falling_back(entry_data, n) ==
    LET entry_type == Get(entry_data, "type", None)
        cls == IF IsStr(entry_type) /\ entry_type.s \in DOMAIN entry_type_mapping
                 THEN entry_type_mapping[entry_type.s] ELSE "Entry"
        made == Construct(cls, entry_data, n)
    IN  IF Raised(made) THEN Return(None) ELSE made

(* Journal._create_entry: the entry, None when its class refuses the       *)
(* payload, ValueError for a type the mapping does not know, TypeError for *)
(* a type that cannot be a dict key.                                       *)
_create_entry(entry_data, n) ==
    LET entry_type == Get(entry_data, "type", None) IN
    IF IsList(entry_type) \/ IsDict(entry_type) THEN Raise("TypeError")
    ELSE IF IsStr(entry_type) /\ entry_type.s \in DOMAIN entry_type_mapping
      THEN LET made == Construct(entry_type_mapping[entry_type.s], entry_data, n) IN
           IF Raised(made) THEN Return(None) ELSE made
    ELSE Raise("ValueError")

(* What _create_entry logs on its way to made, the outcome it ends with:  *)
(* the debug line before the class is called, and the error line of the    *)
(* exception the class raised, which is why it returns None.               *)
_create_entry_logged(entry_data, n, flag, made) ==
    LET entry_type == Get(entry_data, "type", None) IN
    IF Raised(made) THEN <<>>
    ELSE _log_debug([text |-> "Creating entry of type", type |-> entry_type], flag)
         \o (IF IsNone(made.val)
               THEN <<Error([text |-> "Error creating entry of type",
                             type |-> entry_type,
                             e |-> ConstructFailure(entry_data, n)])>>
               ELSE <<>>)

(* The exception _create_entry raises for a type it cannot look up.        *)
LookupFailure(entry_data) ==
    LET entry_type == Get(entry_data, "type", None) IN
    IF IsList(entry_type) \/ IsDict(entry_type) THEN [exc |-> "TypeError"]
    ELSE [exc |-> "ValueError", text |-> "Unknown entry type", type |-> entry_type]

(* The interaction dict _add_interaction builds, or the KeyError of an     *)
(* utterance that has no prompt.                                           *)
Interaction(entry, task_response) ==
    IF "prompt" \notin DOMAIN entry.utterance THEN Raise("KeyError")
    ELSE Return("_id" :> entry.id @@
                "date" :> entry.createdOn @@
                "user utterance" :> entry.utterance["prompt"].s @@
                "LAH action" :> task_response)

_add_interaction_dropped(q, entry, task_response, maxlen) ==
    LET interaction == Interaction(entry, task_response) IN
    IF Raised(interaction) THEN interaction ELSE Return(q)

_add_interaction_twice(q, entry, task_response, maxlen) ==
    LET interaction == Interaction(entry, task_response) IN
    IF Raised(interaction) THEN interaction
    ELSE Return(DequeAppend(DequeAppend(q, interaction.val, maxlen),
                            interaction.val, maxlen))

(* Journal._add_interaction: the interactions deque after the call, or the *)
(* exception building the interaction raised.                              *)
_add_interaction(q, entry, task_response, maxlen) ==
    LET interaction == Interaction(entry, task_response) IN
    IF Raised(interaction) THEN interaction
    ELSE Return(DequeAppend(q, interaction.val, maxlen))

WantsInteractionAlways(llm_response) == TRUE

(* `if llm_response:`, the test that decides whether add_entry derives an  *)
(* interaction.                                                            *)
WantsInteraction(llm_response) == Truthy(llm_response)

(* The exceptions add_entry's except clause catches. *)
CaughtByAddEntry == {"TypeError", "ValueError", "ValidationError"}

(* Journal.add_entry: the two deques after the call, what the call         *)
(* returned or raised, the items it handed to each deque's append, how     *)
(* many uuids it drew, and the records it logged.  flag is the debug flag  *)
(* _log_debug reads.  model_dump_json of a validated entry is evaluated    *)
(* whatever the flag and is taken to succeed.                              *)
add_entry(es, is, entry_data, llm_response, n, maxlen, clock, flag) ==
    LET payload == IF IsStr(entry_data)
                     THEN _create_basic_entry(entry_data, n, clock[1], clock[2])
                     ELSE entry_data.d
        made == _create_entry(payload, n)
        drawn == IF IsStr(entry_data) THEN 1
                 ELSE IF ~Raised(made) /\ ~IsNone(made.val) /\ DrawsUuid(payload) THEN 1
                 ELSE 0
        logged == _create_entry_logged(payload, n, flag, made)
        same == [entries |-> es, interactions |-> is, putE |-> <<>>, putI |-> <<>>,
                 drawn |-> drawn, logged |-> logged]
    IN
    IF Raised(made) THEN
        IF made.exc \in CaughtByAddEntry
          THEN [same EXCEPT !.logged =
                     logged \o <<Error([text |-> "Failed to instantiate entry",
                                        e |-> LookupFailure(payload)])>>]
               @@ [result |-> Return(None)]
          ELSE same @@ [result |-> made]
    ELSE IF IsNone(made.val) THEN
        same @@ [result |-> Return(None)]
    ELSE
        LET es2 == DequeAppend(es, made.val, maxlen)
            stored == [same EXCEPT
                         !.entries = es2, !.putE = <<made.val>>,
                         !.logged = logged \o
                             _log_debug([text |-> "Entry created successfully",
                                         entry |-> made.val], flag)]
        IN
        IF ~WantsInteraction(llm_response) THEN stored @@ [result |-> made]
        ELSE
            LET added == _add_interaction(is, made.val, llm_response, maxlen) IN
            IF Raised(added) THEN stored @@ [result |-> added]
            ELSE [stored EXCEPT !.interactions = added.val,
                                !.putI = <<Interaction(made.val, llm_response).val>>]
                 @@ [result |-> made]

(* for entry in self.entries: the first entry, from the left end of the   *)
(* deque, whose id equals entry_id, else None.                             *)
RECURSIVE get_entry_by_id_newest(_, _)
get_entry_by_id_newest(es, entry_id) ==
    IF es = <<>> THEN None
    ELSE IF es[Len(es)].id = entry_id THEN es[Len(es)]
    ELSE get_entry_by_id_newest(SubSeq(es, 1, Len(es) - 1), entry_id)

RECURSIVE get_entry_by_id(_, _)
get_entry_by_id(es, entry_id) ==
    IF es = <<>> THEN None
    ELSE IF Head(es).id = entry_id THEN Head(es)
    ELSE get_entry_by_id(Tail(es), entry_id)

(* for interaction in self.interactions: the same scan on the `_id` key.   *)
RECURSIVE get_interaction_by_id(_, _)
get_interaction_by_id(is, entry_id) ==
    IF is = <<>> THEN None
    ELSE IF Head(is)["_id"] = entry_id THEN Head(is)
    ELSE get_interaction_by_id(Tail(is), entry_id)

----------------------------------------------------------------------------
(* Resource extraction. *)

ResourcePathSwapped ==
    [c \in {"VisionEntry", "MagicCamEntry", "AiGeneratedImageEntry"} |->
        CASE c = "VisionEntry" -> <<"aiGeneratedImageData", "files">>
          [] c = "MagicCamEntry" -> <<"magicCameraData", "aiGeneratedImages">>
          [] c = "AiGeneratedImageEntry" -> <<"visionData", "files">>]

(* The classes that define get_resource_urls, each with the key of its     *)
(* sub-object in data and the key of the file list in it.                  *)
ResourcePath ==
    [c \in {"VisionEntry", "MagicCamEntry", "AiGeneratedImageEntry"} |->
        CASE c = "VisionEntry" -> <<"visionData", "files">>
          [] c = "MagicCamEntry" -> <<"magicCameraData", "aiGeneratedImages">>
          [] c = "AiGeneratedImageEntry" -> <<"aiGeneratedImageData", "files">>]

(* [file.get('url') for file in files if file.get('url')] over a list: the *)
(* first element that is no dict raises AttributeError.                    *)
RECURSIVE UrlsOfList(_)
UrlsOfList(files) ==
    IF files = <<>> THEN Return(<<>>)
    ELSE IF ~IsDict(Head(files)) THEN Raise("AttributeError")
    ELSE LET rest == UrlsOfList(Tail(files))
             url == Get(Head(files).d, "url", None)
         IN  IF Raised(rest) THEN rest
             ELSE IF Truthy(url) THEN Return(<<url>> \o rest.val)
             ELSE rest

(* The same comprehension over whatever value stands where the file list   *)
(* should: None and a bool cannot be iterated, a str yields its            *)
(* characters and a dict its keys, none of which has a get.                *)
UrlsOf(files) ==
    CASE IsList(files) -> UrlsOfList(files.l)
      [] IsStr(files) \/ IsDict(files) ->
            IF Truthy(files) THEN Raise("AttributeError") ELSE Return(<<>>)
      [] OTHER -> Raise("TypeError")

(* entry.get_resource_urls(): the list of urls, or the exception raised.   *)
(* A class without the method raises AttributeError.                       *)
get_resource_urls(entry) ==
    IF entry.cls \notin DOMAIN ResourcePath THEN Raise("AttributeError")
    ELSE LET path == ResourcePath[entry.cls] IN
         IF path[1] \notin DOMAIN entry.data THEN Return(<<>>)
         ELSE IF ~IsDict(entry.data[path[1]]) THEN Raise("AttributeError")
         ELSE UrlsOf(Get(entry.data[path[1]].d, path[2], List(<<>>)))

----------------------------------------------------------------------------
(* The resource pipeline.  A run's calls to its collaborators are kept in  *)
(* the order they are made.                                                *)

SignCall(urls) == [call |-> "fetch_user_entry_resource", arg |-> urls]
GetCall(url) == [call |-> "requests.get", url |-> url]
OpenCall(path) == [call |-> "open", path |-> path]

get_signed_resource_urls_asking_twice(entry, service) ==
    LET urls == get_resource_urls(entry) IN
    IF Raised(urls) THEN [value |-> List(<<>>), calls |-> <<>>]
    ELSE [value |-> IF Raised(service) \/ ~IsDict(service.val) THEN List(<<>>)
                    ELSE Get(service.val.d, "resources", List(<<>>)),
          calls |-> <<SignCall(urls.val), SignCall(urls.val)>>]

(* Journal.get_signed_resource_urls: what it returns, and its calls.       *)
(* service is what rabbit_hole.fetch_user_entry_resource returns or        *)
(* raises; every exception is caught and becomes the empty list.           *)
get_signed_resource_urls(entry, service) ==
    LET urls == get_resource_urls(entry) IN
    IF Raised(urls) THEN [value |-> List(<<>>), calls |-> <<>>]
    ELSE [value |-> IF Raised(service) \/ ~IsDict(service.val) THEN List(<<>>)
                    ELSE Get(service.val.d, "resources", List(<<>>)),
          calls |-> <<SignCall(urls.val)>>]

(* A URL requests can fetch has a scheme. *)
IsUrl(v) == IsStr(v) /\ "parts" \in DOMAIN v /\ v.parts[1] \in {"http:", "https:"}

(* The items enumerate() yields for a signed value that can be iterated:   *)
(* the elements of a list, the characters of a str, the keys of a dict.    *)
ItemsOf(signed) ==
    CASE IsList(signed) -> signed.l
      [] IsStr(signed) -> [i \in 1..Len(signed.s) |-> Str("c")]
      [] IsDict(signed) -> [i \in 1..Cardinality(DOMAIN signed.d) |-> Str("key")]

(* One turn of the loop of save_resources, for the item at index idx       *)
(* (counted from 1): the paths it adds to saved_files and its calls.       *)
(* fates[idx] is what goes wrong at this position, if anything: the fetch  *)
(* (a RequestException of requests.get or of raise_for_status) or the      *)
(* write (OSError).  A missing raw URL (IndexError) and a raw URL that is  *)
(* no str (AttributeError) are caught like the write's failure.            *)
SaveOneClamping(entry, urls, directory, idx, resource_url, fates) ==
    LET at == IF idx > Len(urls) THEN Len(urls) ELSE idx IN
    IF ~IsUrl(resource_url) \/ fates[idx] = "RequestException"
      THEN [saved |-> <<>>, calls |-> <<GetCall(resource_url)>>]
    ELSE IF at = 0 \/ "parts" \notin DOMAIN urls[at]
      THEN [saved |-> <<>>, calls |-> <<GetCall(resource_url)>>]
    ELSE LET save_name == entry.id \o "_" \o Last(urls[at].parts)
             save_path == directory \o <<save_name>>
         IN  [saved |-> IF fates[idx] = "OSError" THEN <<>>
                        ELSE <<[sep |-> "\\", parts |-> save_path]>>,
              calls |-> <<GetCall(resource_url), OpenCall(save_path)>>]

SaveOneNamedByFirst(entry, urls, directory, idx, resource_url, fates) ==
    IF ~IsUrl(resource_url) \/ fates[idx] = "RequestException"
      THEN [saved |-> <<>>, calls |-> <<GetCall(resource_url)>>]
    ELSE IF idx > Len(urls) \/ "parts" \notin DOMAIN urls[1]
      THEN [saved |-> <<>>, calls |-> <<GetCall(resource_url)>>]
    ELSE LET save_name == entry.id \o "_" \o Last(urls[1].parts)
             save_path == directory \o <<save_name>>
         IN  [saved |-> IF fates[idx] = "OSError" THEN <<>>
                        ELSE <<[sep |-> "\\", parts |-> save_path]>>,
              calls |-> <<GetCall(resource_url), OpenCall(save_path)>>]

SaveOne(entry, urls, directory, idx, resource_url, fates) ==
    IF ~IsUrl(resource_url) \/ fates[idx] = "RequestException"
      THEN [saved |-> <<>>, calls |-> <<GetCall(resource_url)>>]
    ELSE IF idx > Len(urls) \/ "parts" \notin DOMAIN urls[idx]
      THEN [saved |-> <<>>, calls |-> <<GetCall(resource_url)>>]
    ELSE LET save_name == entry.id \o "_" \o Last(urls[idx].parts)
             save_path == directory \o <<save_name>>
         IN  [saved |-> IF fates[idx] = "OSError" THEN <<>>
                        ELSE <<[sep |-> "\\", parts |-> save_path]>>,
              calls |-> <<GetCall(resource_url), OpenCall(save_path)>>]

RECURSIVE SaveFromAborting(_, _, _, _, _, _)
SaveFromAborting(entry, urls, directory, items, fates, idx) ==
    IF idx > Len(items) THEN [saved |-> <<>>, calls |-> <<>>]
    ELSE LET one == SaveOne(entry, urls, directory, idx, items[idx], fates)
             rest == SaveFromAborting(entry, urls, directory, items, fates, idx + 1)
         IN  IF one.saved = <<>> THEN one
             ELSE [saved |-> one.saved \o rest.saved, calls |-> one.calls \o rest.calls]

(* The loop of save_resources from index idx on. *)
RECURSIVE SaveFrom(_, _, _, _, _, _)
SaveFrom(entry, urls, directory, items, fates, idx) ==
    IF idx > Len(items) THEN [saved |-> <<>>, calls |-> <<>>]
    ELSE LET one == SaveOne(entry, urls, directory, idx, items[idx], fates)
             rest == SaveFrom(entry, urls, directory, items, fates, idx + 1)
         IN  [saved |-> one.saved \o rest.saved, calls |-> one.calls \o rest.calls]

(* Journal.save_resources: what it returns or raises, and its calls.       *)
save_resources(entry, directory, service, fates) ==
    LET urls == get_resource_urls(entry) IN
    IF Raised(urls) THEN [result |-> urls, calls |-> <<>>]
    ELSE LET signed == get_signed_resource_urls(entry, service) IN
         IF IsNone(signed.value) \/ IsBool(signed.value)
           THEN [result |-> Raise("TypeError"), calls |-> signed.calls]
         ELSE LET run == SaveFrom(entry, urls.val, directory,
                                  ItemsOf(signed.value), fates, 1)
              IN  [result |-> Return(run.saved), calls |-> signed.calls \o run.calls]

----------------------------------------------------------------------------
(* The inputs the calls are made with. *)

TenZ == <<"2024-05-01T10:00:00", "Z">>
ElevenPlusOne == <<"2024-05-01T11:00:00", "+01:00">>
Yesterday == <<"yesterday">>

WithPrompt == "prompt" :> Str("hi") @@ "intention" :> Str("CONVERSATION")
NoPrompt == "intention" :> Str("CONVERSATION")

Payload(id, type, created, utterance, data) ==
    "_id" :> Str(id) @@
    "userId" :> Str("u1") @@
    "createdOn" :> Text(created) @@
    "modifiedOn" :> Text(created) @@
    "archived" :> Bool(FALSE) @@
    "type" :> Str(type) @@
    "title" :> Str("title") @@
    "data" :> Dict(data) @@
    "utterance" :> Dict(utterance)

Without(p, field) == [f \in DOMAIN p \ {field} |-> p[f]]

NoteA == Payload("a", "note", TenZ, WithPrompt, <<>>)
VisionA == Payload("a", "vision", TenZ, WithPrompt,
                   "visionData" :> Dict("files" :> List(<<Dict("url" :> Text(<<"http:", "", "x", "a.jpg">>))>>)))
ConversationB == Payload("b", "conversation", ElevenPlusOne, NoPrompt, <<>>)
SearchNoId == Without(Payload("a", "search-memory", TenZ, WithPrompt, <<>>), "_id")
BetaByName == Without(Payload("a", "beta-rabbit", TenZ, WithPrompt, <<>>), "_id")
                 @@ "id" :> Str("b") @@ "extra" :> Str("ignored")

ValidPayloads == {NoteA, VisionA, ConversationB, SearchNoId, BetaByName}

UnknownType == Payload("a", "unknown-xyz", TenZ, WithPrompt, <<>>)
UnknownTypeBadDate == Payload("a", "unknown-xyz", Yesterday, WithPrompt, <<>>)

InvalidPayloads ==
    { UnknownType,
      UnknownTypeBadDate,
      Without(NoteA, "type"),
      Without(NoteA, "userId"),
      Without(VisionA, "data"),
      Payload("a", "note", Yesterday, WithPrompt, <<>>),
      [NoteA EXCEPT !["modifiedOn"] = Text(Yesterday)],
      [NoteA EXCEPT !["createdOn"] = None],
      [NoteA EXCEPT !["type"] = List(<<Str("note")>>)],
      [NoteA EXCEPT !["utterance"] = Dict("prompt" :> None)] }

Payloads == ValidPayloads \cup InvalidPayloads

Texts == {Str(""), Str("hello")}

Responses == {None, Str(""), Str("Turning on the lights")}

Ten == [local |-> 10, utcoffset |-> 0]
Eleven == [local |-> 11, utcoffset |-> 0]
Clocks == {<<Ten, Eleven>>}

(* The inputs of the deeper runs of the eviction order. *)
FifoPayloads == {NoteA, VisionA, ConversationB, UnknownType}
FifoResponses == {None, Str("Turning on the lights")}

(* The inputs of the lookups by id: two different entries of id "a", one  *)
(* of id "b", one payload that is refused; and the ids looked up, one of   *)
(* which no entry has.                                                     *)
VisionLaterA == Payload("a", "vision", ElevenPlusOne, WithPrompt, <<>>)
NoteB == Payload("b", "note", TenZ, WithPrompt, <<>>)
LookupPayloads == {NoteA, VisionLaterA, NoteB, UnknownType}
LookupIds == {"a", "b", "zz"}

(* The inputs of the runs made with the debug flag set and unset.         *)
NoteYesterday == Payload("a", "note", Yesterday, WithPrompt, <<>>)
DebugInputs == {Dict(NoteA), Dict(ConversationB), Dict(UnknownType),
                Dict(NoteYesterday), Str("hello")}

(* The payloads whose rejection is observed in the error log: those of    *)
(* the wide runs, and two with more than one defect.                       *)
DiagnosedPayloads ==
    Payloads \cup { Without(NoteYesterday, "userId"), Without(UnknownType, "userId") }

(* The entries the resource operations are called on, each built by its   *)
(* class from a payload.                                                   *)
UrlA == Text(<<"http:", "", "x", "a.jpg">>)
UrlB == Text(<<"http:", "", "y", "img", "b.png">>)

EntryOf(type, data) ==
    Construct(entry_type_mapping[type], Payload("a", type, TenZ, WithPrompt, data), 0).val

RECURSIVE SeqsUpTo(_, _)
SeqsUpTo(S, n) ==
    IF n = 0 THEN {<<>>}
    ELSE LET shorter == SeqsUpTo(S, n - 1) IN
         shorter \cup {Append(q, x) : q \in shorter, x \in S}

Descriptors ==
    { Dict(<<>>), Dict("url" :> UrlA), Dict("url" :> UrlB),
      Dict("url" :> Str("")), Dict("url" :> None), Dict("url" :> Bool(TRUE)),
      Str("junk"), None }

SubObjects(filesKey) ==
    { None, Str("junk"), Dict(<<>>), Dict(filesKey :> None) }
    \cup { Dict(filesKey :> List(files)) : files \in SeqsUpTo(Descriptors, MaxFiles) }

SubObjectKeys == {"visionData", "magicCameraData", "aiGeneratedImageData"}

FilesKey(key) == IF key = "magicCameraData" THEN "aiGeneratedImages" ELSE "files"

Datas == {<<>>} \cup { key :> sub : key \in SubObjectKeys, sub \in SubObjects("files") }
               \cup { key :> sub : key \in SubObjectKeys, sub \in SubObjects("aiGeneratedImages") }

ExtractSubjects ==
    { EntryOf(type, data) : type \in DOMAIN entry_type_mapping, data \in Datas }

UrlDescriptors == { Dict("url" :> UrlA), Dict("url" :> UrlB) }

PipelineSubjects ==
    { EntryOf("vision", "visionData" :> Dict("files" :> List(files))) :
         files \in SeqsUpTo(UrlDescriptors, MaxRaw) }
    \cup { EntryOf("vision", "visionData" :> Dict("files" :>
                      List(<<Dict("url" :> UrlA), Dict(<<>>), Dict("url" :> UrlB)>>))),
           EntryOf("magic-camera",
                   "magicCameraData" :> Dict("aiGeneratedImages" :> List(<<Dict("url" :> UrlA)>>))),
           EntryOf("ai-generated-image",
                   "aiGeneratedImageData" :> Dict("files" :> List(<<Dict("url" :> UrlB)>>))),
           EntryOf("vision", "visionData" :> Dict("files" :> List(<<Dict("url" :> Bool(TRUE))>>))),
           EntryOf("vision", "visionData" :> None),
           EntryOf("note", <<>>) }

SignedUrl(i) == Text(<<"https:", "", "signed", ToString(i)>>)

SignedLists == { [i \in 1..m |-> SignedUrl(i)] : m \in 0..MaxSigned }

(* What the signing service returns or raises. *)
ServiceOutcomes ==
    { Raise("ConnectionError"),
      Return(None),
      Return(List(<<SignedUrl(1)>>)),
      Return(Dict(<<>>)),
      Return(Dict("resources" :> None)),
      Return(Dict("resources" :> Str("no"))) }
    \cup { Return(Dict("resources" :> List(signed))) : signed \in SignedLists }

Fates == {"ok", "RequestException", "OSError"}

Directories == { <<"", "tmp", "img">> }

(* The payloads create_entry_model is called with: every type of the      *)
(* mapping and two outside it, with good and bad timestamps.               *)
FactoryTypes == DOMAIN entry_type_mapping \cup {"unknown-xyz", ""}

FactoryPayloads ==
    Payloads \cup
    { Payload(id, type, created, utterance, <<>>) :
        id \in {"a", "b"}, type \in FactoryTypes,
        created \in {TenZ, Yesterday}, utterance \in {WithPrompt, NoPrompt} }
    \cup { Without(Payload("a", type, TenZ, WithPrompt, <<>>), "_id") : type \in FactoryTypes }

----------------------------------------------------------------------------
(* The state machine. *)

NoOutcome == [op |-> "none"]

TypeOK ==
    /\ max_entries \in 0..MaxCapacity
    /\ Len(entries) <= max_entries
    /\ Len(interactions) <= max_entries
    /\ uuids \in Nat

(* Journal(max_entries): two empty deques. *)
InitJournal ==
    /\ max_entries \in 0..MaxCapacity
    /\ entries = <<>>
    /\ interactions = <<>>
    /\ uuids = 0
    /\ outcome = NoOutcome
    /\ appendedEntries = <<>>
    /\ appendedInteractions = <<>>

Init ==
    /\ InitJournal
    /\ debug = FALSE
    /\ subject = None

(* One call of add_entry; limit bounds the number of appends of a run. *)
AddEntryCall(entry_data, llm_response, clock, limit) ==
    /\ Len(appendedEntries) < limit
    /\ LET done == add_entry(entries, interactions, entry_data, llm_response,
                             uuids, max_entries, clock, debug) IN
        /\ entries' = done.entries
        /\ interactions' = done.interactions
        /\ uuids' = uuids + done.drawn
        /\ outcome' = [op |-> "add_entry", response |-> llm_response,
                       result |-> done.result]
        /\ appendedEntries' = appendedEntries \o done.putE
        /\ appendedInteractions' = appendedInteractions \o done.putI
    /\ UNCHANGED <<max_entries, debug, subject>>

AddEntryPayload ==
    \E p \in Payloads, r \in Responses, c \in Clocks :
        AddEntryCall(Dict(p), r, c, MaxAppends)

AddEntryText ==
    \E t \in Texts, r \in Responses, c \in Clocks :
        AddEntryCall(t, r, c, MaxAppends)

Next == AddEntryPayload \/ AddEntryText

Spec == Init /\ [][Next]_vars

AddEntryFifo ==
    \E p \in FifoPayloads, r \in FifoResponses, c \in Clocks :
        AddEntryCall(Dict(p), r, c, MaxInsertions)

NextFifo == AddEntryFifo

SpecFifo == Init /\ [][NextFifo]_vars

(* entry.get_resource_urls() on the subject. *)
GetResourceUrls ==
    /\ outcome' = [op |-> "get_resource_urls", result |-> get_resource_urls(subject)]
    /\ UNCHANGED <<max_entries, debug, entries, interactions, uuids, subject,
                   appendedEntries, appendedInteractions>>

InitExtract ==
    /\ InitJournal
    /\ max_entries = MaxCapacity
    /\ debug = FALSE
    /\ subject \in ExtractSubjects

NextExtract == GetResourceUrls

SpecExtract == InitExtract /\ [][NextExtract]_vars

(* One call of save_resources on the subject. *)
SaveResourcesCall(directory, service, fates) ==
    /\ LET done == save_resources(subject, directory, service, fates) IN
         outcome' = [op |-> "save_resources", directory |-> directory,
                     service |-> service, fates |-> fates,
                     result |-> done.result, calls |-> done.calls]
    /\ UNCHANGED <<max_entries, debug, entries, interactions, uuids, subject,
                   appendedEntries, appendedInteractions>>

(* How many fetches a run makes when the service answers with service:    *)
(* the environment decides one fate for each.                              *)
Fetches(entry, service) ==
    LET signed == get_signed_resource_urls(entry, service).value IN
    IF IsNone(signed) \/ IsBool(signed) THEN 0 ELSE Len(ItemsOf(signed))

SaveResources ==
    \E directory \in Directories, service \in ServiceOutcomes :
        \E fates \in [1..Fetches(subject, service) -> Fates] :
            SaveResourcesCall(directory, service, fates)

InitResources ==
    /\ InitJournal
    /\ max_entries = MaxCapacity
    /\ debug = FALSE
    /\ subject \in PipelineSubjects

NextResources == SaveResources

SpecResources == InitResources /\ [][NextResources]_vars

(* One call of add_entry, observed together with the records it logged.   *)
AddEntryObservedStoringUnlessDebug(entry_data, llm_response, clock, limit) ==
    /\ Len(appendedEntries) < limit
    /\ LET done == add_entry(entries, interactions, entry_data, llm_response,
                             uuids, max_entries, clock, debug) IN
        /\ entries' = IF debug THEN entries ELSE done.entries
        /\ interactions' = done.interactions
        /\ uuids' = uuids + done.drawn
        /\ outcome' = [op |-> "add_entry", entry_data |-> entry_data,
                       response |-> llm_response,
                       result |-> done.result, logged |-> done.logged]
        /\ appendedEntries' = appendedEntries \o done.putE
        /\ appendedInteractions' = appendedInteractions \o done.putI
    /\ UNCHANGED <<max_entries, debug, subject>>

AddEntryObserved(entry_data, llm_response, clock, limit) ==
    /\ Len(appendedEntries) < limit
    /\ LET done == add_entry(entries, interactions, entry_data, llm_response,
                             uuids, max_entries, clock, debug) IN
        /\ entries' = done.entries
        /\ interactions' = done.interactions
        /\ uuids' = uuids + done.drawn
        /\ outcome' = [op |-> "add_entry", entry_data |-> entry_data,
                       response |-> llm_response,
                       result |-> done.result, logged |-> done.logged]
        /\ appendedEntries' = appendedEntries \o done.putE
        /\ appendedInteractions' = appendedInteractions \o done.putI
    /\ UNCHANGED <<max_entries, debug, subject>>

(* A journal in a process whose configuration has the debug flag set, or   *)
(* has it unset.                                                           *)
InitDebug ==
    /\ InitJournal
    /\ debug \in BOOLEAN
    /\ subject = None

AddEntryDebug ==
    \E e \in DebugInputs, r \in FifoResponses, c \in Clocks :
        AddEntryObserved(e, r, c, MaxAppends)

NextDebug == AddEntryDebug

SpecDebug == InitDebug /\ [][NextDebug]_vars

(* The journal whose rejections are read from the error log. *)
AddEntryDiagnosed ==
    \E p \in DiagnosedPayloads, r \in FifoResponses, c \in Clocks :
        AddEntryObserved(Dict(p), r, c, MaxAppends)

NextDiagnostics == AddEntryDiagnosed

SpecDiagnostics == Init /\ [][NextDiagnostics]_vars

(* The journal the lookups by id are made on. *)
AddEntryLookup ==
    \E p \in LookupPayloads, r \in FifoResponses, c \in Clocks :
        AddEntryCall(Dict(p), r, c, MaxInsertions)

GetEntryById ==
    \E entry_id \in LookupIds :
        /\ outcome' = [op |-> "get_entry_by_id", entry_id |-> entry_id,
                       result |-> get_entry_by_id(entries, entry_id)]
        /\ UNCHANGED <<max_entries, debug, entries, interactions, uuids, subject,
                       appendedEntries, appendedInteractions>>

GetInteractionById ==
    \E entry_id \in LookupIds :
        /\ outcome' = [op |-> "get_interaction_by_id", entry_id |-> entry_id,
                       result |-> get_interaction_by_id(interactions, entry_id)]
        /\ UNCHANGED <<max_entries, debug, entries, interactions, uuids, subject,
                       appendedEntries, appendedInteractions>>

NextLookup == AddEntryLookup \/ GetEntryById \/ GetInteractionById

SpecLookup == Init /\ [][NextLookup]_vars

(* One call of the module's create_entry_model; no journal is involved.    *)
CreateEntryModel ==
    \E p \in FactoryPayloads :
        LET made == create_entry_model(p, uuids) IN
        /\ DrawsUuid(p) => uuids < MaxAppends
        /\ outcome' = [op |-> "create_entry_model", entry_data |-> Dict(p),
                       result |-> made]
        /\ uuids' = IF ~Raised(made) /\ DrawsUuid(p) THEN uuids + 1 ELSE uuids
        /\ UNCHANGED <<max_entries, debug, entries, interactions, subject,
                       appendedEntries, appendedInteractions>>

NextFactory == CreateEntryModel

SpecFactory == Init /\ [][NextFactory]_vars

----------------------------------------------------------------------------
(* What the claims are stated with. *)

Min(a, b) == IF a <= b THEN a ELSE b

(* The n most recent items of a history, oldest first. *)
Recent(history, n) ==
    SubSeq(history, Len(history) - Min(n, Len(history)) + 1, Len(history))

IsEntry(v) == "cls" \in DOMAIN v

(* The last call was add_entry and it returned the entry it built. *)
ReturnedEntry(o) ==
    o.op = "add_entry" /\ ~Raised(o.result) /\ IsEntry(o.result.val)

(* The last call was add_entry and it returned no entry. *)
ReturnedNone(o) ==
    o.op = "add_entry" /\ ~Raised(o.result) /\ IsNone(o.result.val)

(* Every way add_entry is called in Spec. *)
EntryInputs == {Dict(p) : p \in Payloads} \cup Texts

KnownTypes == {"vision", "magic-camera", "ai-generated-image", "note",
               "conversation", "beta-rabbit", "search", "search-memory"}

RequiredFields == {"userId", "createdOn", "modifiedOn", "archived", "type",
                   "title", "data", "utterance"}

ParsableTimestamps == {TenZ, ElevenPlusOne,
                       <<"2024-05-01T10:00:00", "+00:00">>,
                       <<"2024-05-01T11:00:00", "Z">>,
                       <<"2024-05-01T10:00:00", "+01:00">>,
                       <<"2024-05-01T11:00:00", "+00:00">>}

(* The three ways a payload fails validation that the claims name. *)
FailsValidation(p) ==
    \/ RequiredFields \ DOMAIN p # {}
    \/ ~(IsStr(p["type"]) /\ p["type"].s \in KnownTypes)
    \/ \E f \in {"createdOn", "modifiedOn"} :
          ~(IsStr(p[f]) /\ p[f].parts \in ParsableTimestamps)

----------------------------------------------------------------------------
(* C1: each of the two logs holds at most max_entries items, and holds     *)
(* exactly the most recent min(max_entries, k) of the k items ever         *)
(* appended to it, in insertion order: eviction is strictly oldest-first,  *)
(* whatever the evicted item's type or content.                            *)
C1_BoundedFifo ==
    /\ Len(entries) <= max_entries
    /\ Len(interactions) <= max_entries
    /\ entries = Recent(appendedEntries, max_entries)
    /\ interactions = Recent(appendedInteractions, max_entries)

(* More insertions than the capacity, of entries of different types, with  *)
(* both logs having evicted.                                               *)
C1_Witness ==
    /\ max_entries = 2
    /\ Len(appendedEntries) = 4
    /\ Len(appendedInteractions) = 3
    /\ entries[1].type # entries[2].type
    /\ appendedEntries[1].type # appendedEntries[2].type

(* C2: add_entry returns the entry or no entry, and never lets an          *)
(* exception escape.                                                       *)
C2_NeverRaises ==
    outcome.op = "add_entry" => ~Raised(outcome.result)

(* C3: a call whose payload fails validation returns no entry, does not    *)
(* raise, and leaves both logs as they were, with or without a response.   *)
C3_InvalidPayloadRejected ==
    [][\A p \in Payloads, r \in Responses, c \in Clocks :
         (/\ FailsValidation(p)
          /\ outcome'.response = r
          /\ AddEntryCall(Dict(p), r, c, MaxAppends)) =>
            /\ ReturnedNone(outcome')
            /\ entries' = entries
            /\ interactions' = interactions]_vars

(* A rejected call that was given a response, on a journal holding entries *)
(* and interactions.                                                       *)
C3_Witness ==
    /\ ReturnedNone(outcome)
    /\ Truthy(outcome.response)
    /\ entries # <<>>
    /\ interactions # <<>>

(* C4: a successful call made without a response appends the entry to the  *)
(* entries log and leaves the interactions log unchanged.                  *)
C4_NoResponseNoInteraction ==
    [][\A e \in EntryInputs, c \in Clocks :
         (/\ ReturnedEntry(outcome')
          /\ outcome'.response = None
          /\ AddEntryCall(e, None, c, MaxAppends)) =>
            /\ entries' = Recent(entries \o <<outcome'.result.val>>, max_entries)
            /\ interactions' = interactions
            /\ appendedInteractions' = appendedInteractions]_vars

(* A successful call without a response after which the sizes differ.      *)
C4_Witness ==
    /\ ReturnedEntry(outcome)
    /\ IsNone(outcome.response)
    /\ interactions # <<>>
    /\ Len(entries) > Len(interactions)
    /\ Last(entries) = outcome.result.val

(* C5 as stated: a successful call that is supplied a response string      *)
(* makes the interactions log one longer.                                  *)
C5_AsStated ==
    [][\A e \in EntryInputs, r \in Responses, c \in Clocks :
         (/\ IsStr(r)
          /\ ReturnedEntry(outcome')
          /\ outcome'.response = r
          /\ AddEntryCall(e, r, c, MaxAppends)) =>
            Len(interactions') = Len(interactions) + 1]_vars

(* C5 as amended: a call that returns the entry and was supplied a         *)
(* non-empty response builds exactly one interaction and appends it under  *)
(* the eviction rule: the interactions log grows by one while below        *)
(* capacity and stays at capacity, losing its oldest item, otherwise.      *)
C5_OneInteractionAppended ==
    [][\A e \in EntryInputs, r \in Responses, c \in Clocks :
         (/\ IsStr(r) /\ r.s # ""
          /\ ReturnedEntry(outcome')
          /\ outcome'.response = r
          /\ AddEntryCall(e, r, c, MaxAppends)) =>
            /\ Len(appendedInteractions') = Len(appendedInteractions) + 1
            /\ Last(appendedInteractions')["_id"] = outcome'.result.val.id
            /\ Last(appendedInteractions')["LAH action"] = r
            /\ interactions' =
                 Recent(interactions \o <<Last(appendedInteractions')>>, max_entries)
            /\ Len(interactions') =
                 IF Len(interactions) < max_entries THEN Len(interactions) + 1
                 ELSE max_entries]_vars

(* A responded call on a journal whose interactions log was already full.  *)
C5_Witness ==
    /\ ReturnedEntry(outcome)
    /\ Truthy(outcome.response)
    /\ max_entries >= 1
    /\ Len(interactions) = max_entries
    /\ Len(appendedInteractions) > max_entries
    /\ Last(interactions)["_id"] = outcome.result.val.id

----------------------------------------------------------------------------
(* What the resource claims are stated with. *)

ResourceClasses == {"VisionEntry", "MagicCamEntry", "AiGeneratedImageEntry"}

NonResourceClasses == {"NoteEntry", "ConversationEntry", "SearchEntry",
                       "SearchMemoryEntry"}

(* The sub-object and file-list keys of a resource-bearing entry's own     *)
(* nested path.                                                            *)
OwnSubObject(entry) ==
    CASE entry.cls = "VisionEntry" -> "visionData"
      [] entry.cls = "MagicCamEntry" -> "magicCameraData"
      [] entry.cls = "AiGeneratedImageEntry" -> "aiGeneratedImageData"

OwnFileList(entry) ==
    IF entry.cls = "MagicCamEntry" THEN "aiGeneratedImages" ELSE "files"

(* The file descriptors under the entry's own nested path; none when the   *)
(* sub-object or its file list is absent.                                  *)
OwnDescriptors(entry) ==
    IF OwnSubObject(entry) \notin DOMAIN entry.data THEN <<>>
    ELSE IF OwnFileList(entry) \notin DOMAIN entry.data[OwnSubObject(entry)].d THEN <<>>
    ELSE entry.data[OwnSubObject(entry)].d[OwnFileList(entry)].l

(* A resource-bearing entry whose own nested path, as far as it is         *)
(* present, is a mapping holding a list of descriptor mappings.            *)
WellFormedPath(entry) ==
    /\ entry.cls \in ResourceClasses
    /\ OwnSubObject(entry) \in DOMAIN entry.data =>
         LET sub == entry.data[OwnSubObject(entry)] IN
         /\ IsDict(sub)
         /\ OwnFileList(entry) \in DOMAIN sub.d =>
              /\ IsList(sub.d[OwnFileList(entry)])
              /\ \A i \in DOMAIN sub.d[OwnFileList(entry)].l :
                    IsDict(sub.d[OwnFileList(entry)].l[i])

(* A descriptor carries a url when it has one that is neither null nor     *)
(* empty.                                                                  *)
CarriesUrl(descriptor) ==
    /\ "url" \in DOMAIN descriptor.d
    /\ descriptor.d["url"] \notin {None, Str(""), Bool(FALSE)}

ExpectedUrls(entry) ==
    LET carrying == SelectSeq(OwnDescriptors(entry), CarriesUrl) IN
    [i \in DOMAIN carrying |-> carrying[i].d["url"]]

(* The positions in 1..n, in increasing order, that satisfy keep. *)
RECURSIVE Positions(_, _)
Positions(n, keep) ==
    IF n = 0 THEN <<>>
    ELSE IF keep[n] THEN Append(Positions(n - 1, keep), n)
    ELSE Positions(n - 1, keep)

(* The path save_resources reports for a raw URL. *)
SavedPath(entry, directory, raw) ==
    [sep |-> "\\", parts |-> directory \o <<entry.id \o "_" \o Last(raw.parts)>>]

(* A signing-service outcome that is a failure or of the wrong shape. *)
BadService(service) ==
    \/ Raised(service)
    \/ ~IsDict(service.val)
    \/ "resources" \notin DOMAIN service.val.d
    \/ ~IsList(service.val.d["resources"])

Gets(calls) == SelectSeq(calls, LAMBDA c : c.call = "requests.get")

----------------------------------------------------------------------------
(* The last call was save_resources on an entry whose own nested path is   *)
(* well formed, and the signing service answered with a list of signed     *)
(* URLs.                                                                   *)
SavedWithSignedList ==
    /\ outcome.op = "save_resources"
    /\ WellFormedPath(subject)
    /\ ~BadService(outcome.service)

SignedOf(o) == o.service.val.d["resources"].l

(* C6 as stated: whatever the list of signed URLs and whichever positions  *)
(* fail to fetch or to write, save_resources does not raise and returns    *)
(* one saved path for each non-failing position.                           *)
C6_AsStated ==
    SavedWithSignedList =>
        /\ ~Raised(outcome.result)
        /\ Len(outcome.result.val) =
             Cardinality({i \in DOMAIN SignedOf(outcome) : outcome.fates[i] = "ok"})

(* C6 as amended: for an entry whose own nested path is well formed,       *)
(* whatever the list of signed URLs and whichever positions fail,          *)
(* save_resources does not raise and returns, in list order, exactly the   *)
(* saved path of each position that neither fails to fetch nor to write    *)
(* and that has a raw URL text at the same index; no other position adds a *)
(* path.                                                                   *)
C6_PartialDownloadTolerance ==
    SavedWithSignedList =>
        LET raw == ExpectedUrls(subject)
            n == Len(SignedOf(outcome))
            kept == Positions(n, [i \in 1..n |->
                                    /\ outcome.fates[i] = "ok"
                                    /\ i <= Len(raw)
                                    /\ "parts" \in DOMAIN raw[i]])
        IN  /\ ~Raised(outcome.result)
            /\ outcome.result.val =
                 [j \in DOMAIN kept |->
                     SavedPath(subject, outcome.directory, raw[kept[j]])]

(* Three signed URLs for three raw URLs, the second fetch failing: two     *)
(* paths, for the first and the third raw URL.                             *)
C6_Witness ==
    /\ SavedWithSignedList
    /\ Len(ExpectedUrls(subject)) = 3
    /\ ExpectedUrls(subject)[1] # ExpectedUrls(subject)[3]
    /\ outcome.fates = <<"ok", "RequestException", "ok">>
    /\ outcome.result =
         Return(<< SavedPath(subject, outcome.directory, ExpectedUrls(subject)[1]),
                   SavedPath(subject, outcome.directory, ExpectedUrls(subject)[3]) >>)

(* C7: when the signing service fails or returns a result of the wrong     *)
(* shape, save_resources fetches nothing, returns the empty list and       *)
(* raises nothing.                                                         *)
C7_BadServiceIsEmpty ==
    (/\ outcome.op = "save_resources"
     /\ WellFormedPath(subject)
     /\ BadService(outcome.service)) =>
        /\ outcome.result = Return(<<>>)
        /\ Gets(outcome.calls) = <<>>

(* C8: for an entry of a non-resource variant, resource-URL extraction     *)
(* returns the empty list.                                                 *)
C8_NonResourceEmpty ==
    (outcome.op = "get_resource_urls" /\ subject.cls \in NonResourceClasses) =>
        outcome.result = Return(<<>>)

(* C9: for a resource-bearing entry, get_resource_urls never raises,       *)
(* whatever part of the nested path is missing or defective.               *)
C9_MissingStructureNeverRaises ==
    (outcome.op = "get_resource_urls" /\ subject.cls \in ResourceClasses) =>
        ~Raised(outcome.result)

(* C10: for a resource-bearing entry whose own nested path is well formed, *)
(* get_resource_urls returns exactly the url values of the descriptors     *)
(* under that path, in descriptor order, skipping the descriptors that     *)
(* carry no url; the call leaves the entry as it was and a second call     *)
(* returns what the first returned.                                        *)
C10_UrlsInDescriptorOrder ==
    [][(outcome'.op = "get_resource_urls" /\ WellFormedPath(subject)) =>
          /\ subject' = subject
          /\ outcome'.result = Return(ExpectedUrls(subject))
          /\ outcome.op = "get_resource_urls" => outcome'.result = outcome.result]_vars

(* The vision entry whose files are a descriptor with a url and one        *)
(* without: the one url is returned.                                       *)
C10_Witness ==
    /\ outcome.op = "get_resource_urls"
    /\ subject.cls = "VisionEntry"
    /\ "visionData" \in DOMAIN subject.data
    /\ WellFormedPath(subject)
    /\ OwnDescriptors(subject) = <<Dict("url" :> UrlA), Dict(<<>>)>>
    /\ outcome.result = Return(<<UrlA>>)

(* C11: create_entry_model maps a payload to its variant by the type      *)
(* field alone, and for a type outside the known set it fails: it never    *)
(* falls back to constructing some other (base) entry.                     *)
C11_UnknownTypeFails ==
    outcome.op = "create_entry_model" =>
        LET type == Get(outcome.entry_data.d, "type", None) IN
        IF IsStr(type) /\ type.s \in KnownTypes
          THEN Raised(outcome.result)
               \/ outcome.result.val.cls = entry_type_mapping[type.s]
          ELSE Raised(outcome.result)

(* C12: get_entry_by_id(x) returns the oldest entry still in the log      *)
(* whose id is x, or nothing when no retained entry has that id; and       *)
(* get_interaction_by_id behaves identically over the interactions log.    *)
(* The retained items are the most recent max_entries of those appended.   *)
C12_OldestRetainedMatch ==
    /\ outcome.op = "get_entry_by_id" =>
          LET retained == Recent(appendedEntries, max_entries)
              hits == {i \in 1..Len(retained) : retained[i].id = outcome.entry_id}
          IN  IF hits = {} THEN outcome.result = None
              ELSE \E i \in hits : /\ \A j \in hits : i <= j
                                    /\ outcome.result = retained[i]
    /\ outcome.op = "get_interaction_by_id" =>
          LET retained == Recent(appendedInteractions, max_entries)
              hits == {i \in 1..Len(retained) : retained[i]["_id"] = outcome.entry_id}
          IN  IF hits = {} THEN outcome.result = None
              ELSE \E i \in hits : /\ \A j \in hits : i <= j
                                    /\ outcome.result = retained[i]

(* A lookup of an id that two different retained entries share, after an   *)
(* older entry of that id has been evicted: the older of the two retained  *)
(* is returned.                                                            *)
C12_Witness ==
    /\ outcome.op = "get_entry_by_id"
    /\ Len(entries) = 2
    /\ Len(appendedEntries) > 2
    /\ appendedEntries[1].id = outcome.entry_id
    /\ entries[1].id = outcome.entry_id
    /\ entries[2].id = outcome.entry_id
    /\ entries[1] # entries[2]
    /\ appendedEntries[1] # entries[1]
    /\ outcome.result = entries[1]

(* C13: the debug flag has no effect on the stored state or on the        *)
(* results.  Every add_entry step, taken with the flag as it is, leaves    *)
(* the two logs as the same call with the opposite flag leaves them and    *)
(* returns or raises the same; so two journals that start empty and are    *)
(* given the same calls, one with the flag set and one without, stay       *)
(* identical.                                                              *)
C13_DebugFlagInert ==
    [][\A e \in DebugInputs, r \in FifoResponses, c \in Clocks :
         (/\ outcome'.response = r
          /\ AddEntryObserved(e, r, c, MaxAppends)) =>
            LET other == add_entry(entries, interactions, e, r, uuids,
                                   max_entries, c, ~debug)
            IN  /\ entries' = other.entries
                /\ interactions' = other.interactions
                /\ outcome'.result = other.result
                /\ uuids' = uuids + other.drawn]_vars

(* With the flag set: a call that logged its debug lines, stored its entry *)
(* and its interaction, in a journal that has already evicted.             *)
C13_Witness ==
    /\ debug
    /\ ReturnedEntry(outcome)
    /\ \E i \in DOMAIN outcome.logged : outcome.logged[i].level = "info"
    /\ Len(appendedEntries) > max_entries
    /\ max_entries > 0
    /\ interactions # <<>>
    /\ Last(interactions)["_id"] = outcome.result.val.id

(* C14: add_entry called with a text builds a synthetic payload (type     *)
(* conversation, empty conversation data, utterance.prompt the text,       *)
(* intention "CONVERSATION") and passes it through the same construction   *)
(* path as any other payload, bypassing no validation: for every text,     *)
(* the empty string included, the call appends one conversation entry      *)
(* whose prompt is that text, and leaves the journal as the call with the  *)
(* synthetic payload as a dict leaves it.                                  *)
C14_TextBecomesConversation ==
    [][\A t \in Texts, r \in Responses, c \in Clocks :
         (/\ outcome'.response = r
          /\ AddEntryCall(t, r, c, MaxAppends)) =>
            /\ ~Raised(outcome'.result)
            /\ IsEntry(outcome'.result.val)
            /\ appendedEntries' = Append(appendedEntries, outcome'.result.val)
            /\ entries' = Recent(appendedEntries', max_entries)
            /\ LET entry == outcome'.result.val IN
                 /\ entry.cls = "ConversationEntry"
                 /\ entry.type = "conversation"
                 /\ entry.data = ("conversationData" :> Dict("textContent" :> Str("")))
                 /\ DOMAIN entry.utterance = {"prompt", "intention"}
                 /\ entry.utterance["prompt"] = t
                 /\ entry.utterance["intention"] = Str("CONVERSATION")
            /\ LET synthetic == "_id" :> Str(outcome'.result.val.id) @@
                                 "userId" :> Str("local_user") @@
                                 "createdOn" :> Text(<<"2024-05-01T10:00:00", "+00:00">>) @@
                                 "modifiedOn" :> Text(<<"2024-05-01T11:00:00", "+00:00">>) @@
                                 "archived" :> Bool(FALSE) @@
                                 "type" :> Str("conversation") @@
                                 "title" :> Str("CLI Input") @@
                                 "data" :> Dict("conversationData" :>
                                                   Dict("textContent" :> Str(""))) @@
                                 "utterance" :> Dict("prompt" :> t @@
                                                     "intention" :> Str("CONVERSATION"))
                     direct == add_entry(entries, interactions, Dict(synthetic), r,
                                         uuids, max_entries, c, debug)
                 IN  /\ entries' = direct.entries
                     /\ interactions' = direct.interactions
                     /\ outcome'.result = direct.result]_vars

(* The empty text, with a response: its conversation entry is the newest   *)
(* of the log and its interaction carries the empty utterance.             *)
C14_Witness ==
    /\ ReturnedEntry(outcome)
    /\ outcome.result.val.title = "CLI Input"
    /\ outcome.result.val.utterance["prompt"] = Str("")
    /\ entries # <<>>
    /\ Last(entries) = outcome.result.val
    /\ interactions # <<>>
    /\ Last(interactions)["user utterance"] = ""
    /\ Last(interactions)["_id"] = outcome.result.val.id

(* C15: the file saved for the signed URL at position i is named          *)
(* {entry id}_{basename of the raw URL at position i}: the pairing of      *)
(* signed and raw URLs is by position only.  Every file the run opens      *)
(* follows the fetch of one signed URL and has the name made from the raw  *)
(* URL at that URL's position; and every position that is fetched and has  *)
(* a raw URL gets its file.                                                *)
C15_NamedByPosition ==
    SavedWithSignedList =>
        LET raw == ExpectedUrls(subject)
            signed == SignedOf(outcome)
            calls == outcome.calls
            FileOf(i) == outcome.directory \o
                            <<subject.id \o "_" \o raw[i].parts[Len(raw[i].parts)]>>
        IN  /\ \A k \in DOMAIN calls :
                 calls[k].call = "open" =>
                    /\ k > 1
                    /\ calls[k - 1].call = "requests.get"
                    /\ \E i \in DOMAIN signed : signed[i] = calls[k - 1].url
                    /\ \A i \in DOMAIN signed :
                          signed[i] = calls[k - 1].url =>
                             /\ i <= Len(raw)
                             /\ calls[k].path = FileOf(i)
            /\ \A i \in DOMAIN signed :
                 (/\ outcome.fates[i] # "RequestException"
                  /\ i <= Len(raw)
                  /\ "parts" \in DOMAIN raw[i]) =>
                    \E k \in DOMAIN calls :
                        /\ k > 1
                        /\ calls[k - 1] = [call |-> "requests.get", url |-> signed[i]]
                        /\ calls[k] = [call |-> "open", path |-> FileOf(i)]

(* The first fetch fails and the second succeeds: the one file written is  *)
(* named after the second raw URL, which differs from the first.           *)
C15_Witness ==
    /\ SavedWithSignedList
    /\ Len(ExpectedUrls(subject)) >= 2
    /\ ExpectedUrls(subject)[1] = UrlA
    /\ ExpectedUrls(subject)[2] = UrlB
    /\ Len(SignedOf(outcome)) = 2
    /\ outcome.fates = <<"RequestException", "ok">>
    /\ outcome.calls[Len(outcome.calls)] =
          [call |-> "open", path |-> outcome.directory \o <<"a_b.png">>]
    /\ Len(outcome.result.val) = 1

(* C16: one save_resources call, made on an entry that yields a raw URL   *)
(* list, invokes the signing service exactly once, passing the full raw    *)
(* URL list, before any download is attempted, and then fetches each       *)
(* signed URL exactly once, sequentially in list order: a failed fetch is  *)
(* never retried and never prevents the fetch of the later URLs.           *)
C16_SignOnceThenFetchEachInOrder ==
    (outcome.op = "save_resources" /\ WellFormedPath(subject)) =>
        LET calls == outcome.calls IN
        /\ calls # <<>>
        /\ calls[1] = [call |-> "fetch_user_entry_resource",
                       arg |-> ExpectedUrls(subject)]
        /\ \A k \in DOMAIN calls :
              k > 1 => calls[k].call # "fetch_user_entry_resource"
        /\ ~BadService(outcome.service) =>
              Gets(calls) = [i \in DOMAIN SignedOf(outcome) |->
                               [call |-> "requests.get", url |-> SignedOf(outcome)[i]]]

(* Three signed URLs, the first fetch failing and the second write         *)
(* failing: the service was asked once, first, and all three URLs were     *)
(* fetched.                                                                *)
C16_Witness ==
    /\ SavedWithSignedList
    /\ Len(ExpectedUrls(subject)) = 3
    /\ Len(SignedOf(outcome)) = 3
    /\ outcome.fates = <<"RequestException", "OSError", "ok">>
    /\ outcome.calls[1].call = "fetch_user_entry_resource"
    /\ Len(Gets(outcome.calls)) = 3
    /\ Len(outcome.calls) = 6

----------------------------------------------------------------------------
(* What the error log of an observed add_entry call reports.               *)

ObservedPayload ==
    /\ outcome.op = "add_entry"
    /\ "logged" \in DOMAIN outcome
    /\ IsDict(outcome.entry_data)

ErrorsLogged(o) == SelectSeq(o.logged, LAMBDA record : record.level = "error")

ReportsUnknownType(o) ==
    \E i \in DOMAIN ErrorsLogged(o) :
        LET message == ErrorsLogged(o)[i].message IN
        /\ message.text = "Failed to instantiate entry"
        /\ message.e.exc = "ValueError"
        /\ message.e.text = "Unknown entry type"

(* The fields a logged validation failure names with the message msg.      *)
ReportedFields(o, msg) ==
    UNION { {err.loc : err \in {x \in ErrorsLogged(o)[i].message.e.errors : x.msg = msg}} :
              i \in {j \in DOMAIN ErrorsLogged(o) :
                        /\ ErrorsLogged(o)[j].message.text = "Error creating entry of type"
                        /\ ErrorsLogged(o)[j].message.e.exc = "ValidationError"} }

ReportsInvalidTimestamp(o) == ReportedFields(o, "Value error, Invalid date format") # {}

(* The timestamp fields of p that hold a text no datetime can be parsed    *)
(* from, and the required fields p lacks.                                  *)
UnparsableTimestamps(p) ==
    {f \in {"createdOn", "modifiedOn"} \cap DOMAIN p :
        "parts" \in DOMAIN p[f] /\ p[f].parts \notin ParsableTimestamps}

MissingFields(p) == RequiredFields \ DOMAIN p

HasKnownType(p) == "type" \in DOMAIN p /\ IsStr(p["type"]) /\ p["type"].s \in KnownTypes

(* C17 as stated: the checks run in the order required-field presence,     *)
(* timestamp parse, variant selection, and the first failing one is the    *)
(* one reported: a payload with both an unparsable timestamp and an        *)
(* unrecognized type is reported as invalid-timestamp, and an unrecognized *)
(* type is reported as UnknownEntryType only when the earlier checks pass. *)
C17_AsStated ==
    ObservedPayload =>
        LET p == outcome.entry_data.d IN
        /\ (MissingFields(p) = {} /\ UnparsableTimestamps(p) # {}) =>
              /\ ReportsInvalidTimestamp(outcome)
              /\ ~ReportsUnknownType(outcome)
        /\ ReportsUnknownType(outcome) =>
              /\ MissingFields(p) = {}
              /\ UnparsableTimestamps(p) = {}

(* C17 as amended: the variant is selected first.  A payload whose type is *)
(* missing, null or an unrecognized string is reported as UnknownEntryType *)
(* and nothing else, whatever other defects it has.  Only for a recognized *)
(* type are required-field presence and the timestamps checked, by the     *)
(* variant's constructor and together: one validation failure is reported, *)
(* naming every missing field and every unparsable timestamp text.  In     *)
(* both cases add_entry returns no entry and stores nothing.               *)
C17_VariantSelectedFirst ==
    ObservedPayload =>
        LET p == outcome.entry_data.d
            type == Get(p, "type", None)
            errors == ErrorsLogged(outcome)
        IN
        /\ (IsNone(type) \/ (IsStr(type) /\ type.s \notin KnownTypes)) =>
              /\ Len(errors) = 1
              /\ ReportsUnknownType(outcome)
              /\ errors[1].message.e.type = type
              /\ ReturnedNone(outcome)
        /\ (/\ HasKnownType(p)
             /\ MissingFields(p) \cup UnparsableTimestamps(p) # {}
             /\ \A f \in {"createdOn", "modifiedOn"} \cap DOMAIN p : IsStr(p[f])) =>
              /\ Len(errors) = 1
              /\ errors[1].message.text = "Error creating entry of type"
              /\ errors[1].message.type = p["type"]
              /\ errors[1].message.e.exc = "ValidationError"
              /\ ReportedFields(outcome, "Field required") = MissingFields(p)
              /\ ReportedFields(outcome, "Value error, Invalid date format")
                    = UnparsableTimestamps(p)
              /\ ReturnedNone(outcome)
        /\ ReturnedEntry(outcome) => errors = <<>>

(* A payload with an unparsable timestamp and an unrecognized type, which  *)
(* was reported as of unknown type; the journal kept what it had.          *)
C17_Witness ==
    /\ ObservedPayload
    /\ UnparsableTimestamps(outcome.entry_data.d) = {"createdOn", "modifiedOn"}
    /\ ~HasKnownType(outcome.entry_data.d)
    /\ ReportsUnknownType(outcome)
    /\ ~ReportsInvalidTimestamp(outcome)
    /\ ReturnedNone(outcome)
    /\ entries # <<>>
    /\ entries = Recent(appendedEntries, max_entries)

(* C18: add_entry with a non-empty response is all-or-nothing over the    *)
(* two logs: after the call either the entry has been appended to the      *)
(* entries log and its interaction (same id, date the entry's createdOn,   *)
(* its prompt, the response) to the interactions log, or neither log has   *)
(* changed.                                                                *)
C18_AllOrNothing ==
    [][\A e \in EntryInputs, r \in Responses, c \in Clocks :
         (/\ IsStr(r) /\ r.s # ""
          /\ outcome'.response = r
          /\ AddEntryCall(e, r, c, MaxAppends)) =>
            \/ /\ entries' = entries
               /\ interactions' = interactions
               /\ appendedEntries' = appendedEntries
               /\ appendedInteractions' = appendedInteractions
            \/ /\ Len(appendedEntries') = Len(appendedEntries) + 1
               /\ Len(appendedInteractions') = Len(appendedInteractions) + 1
               /\ entries' = DequeAppend(entries, Last(appendedEntries'), max_entries)
               /\ interactions' =
                    DequeAppend(interactions, Last(appendedInteractions'), max_entries)
               /\ LET entry == Last(appendedEntries')
                      interaction == Last(appendedInteractions')
                  IN  /\ interaction["_id"] = entry.id
                      /\ interaction["date"] = entry.createdOn
                      /\ interaction["user utterance"] = entry.utterance["prompt"].s
                      /\ interaction["LAH action"] = r]_vars

(* C19: in every reachable state, after any interleaving of successful    *)
(* and failed add_entry calls with and without responses, the              *)
(* interactions log is never longer than the entries log.                  *)
C19_InteractionsNoLongerThanEntries ==
    Len(interactions) <= Len(entries)

(* Both logs full and having evicted, after calls with and without a       *)
(* response: fewer interactions than entries were ever appended, and the   *)
(* two logs are now equally long.                                          *)
C19_Witness ==
    /\ max_entries = 2
    /\ Len(appendedInteractions) > max_entries
    /\ Len(appendedEntries) > Len(appendedInteractions)
    /\ Len(interactions) = 2
    /\ Len(entries) = 2

(* C20: when the signing service returns a list of a different length     *)
(* than the raw URL list, save_resources does not raise and the number of  *)
(* saved paths is at most the smaller of the two lengths: a signed URL     *)
(* beyond the end of the raw list is fetched but produces no file and no   *)
(* saved path, and a raw URL beyond the end of the signed list is never    *)
(* downloaded, every fetch being that of a signed URL.                     *)
C20_LengthMismatchTolerated ==
    (/\ SavedWithSignedList
     /\ Len(ExpectedUrls(subject)) # Len(SignedOf(outcome))) =>
        LET raw == ExpectedUrls(subject)
            signed == SignedOf(outcome)
            calls == outcome.calls
            opens == SelectSeq(calls, LAMBDA c : c.call = "open")
        IN  /\ ~Raised(outcome.result)
            /\ Len(outcome.result.val) <= Min(Len(raw), Len(signed))
            /\ Len(opens) <= Min(Len(raw), Len(signed))
            /\ \A k \in DOMAIN calls :
                  calls[k].call = "open" =>
                     \E i \in 1..Min(Len(raw), Len(signed)) :
                         calls[k - 1] = [call |-> "requests.get", url |-> signed[i]]
            /\ Len(Gets(calls)) = Len(signed)
            /\ \A k \in DOMAIN calls :
                  calls[k].call = "requests.get" =>
                     /\ \E i \in DOMAIN signed : calls[k].url = signed[i]
                     /\ \A i \in DOMAIN raw : calls[k].url # raw[i]

(* Three signed URLs for two raw URLs, nothing failing: three fetches, two *)
(* saved paths.                                                            *)
C20_Witness ==
    /\ SavedWithSignedList
    /\ Len(ExpectedUrls(subject)) = 2
    /\ Len(SignedOf(outcome)) = 3
    /\ outcome.fates = <<"ok", "ok", "ok">>
    /\ Len(Gets(outcome.calls)) = 3
    /\ ~Raised(outcome.result)
    /\ Len(outcome.result.val) = 2

====
